---- MODULE Spec2Model ----
(***************************************************************************)
(* WinampRPC-LastFM (src/main.py): the poll loop that mirrors Winamp's     *)
(* now-playing state into a Discord rich-presence display, with the album  *)
(* art resolved from Last.FM (remote), from a local album->asset mapping   *)
(* (local), or a static default.                                           *)
(*                                                                         *)
(* Text that the program takes apart (titles, artists, album names) is a   *)
(* sequence of one-character strings, so that split / strip / join / len   *)
(* are computed as Python computes them.  Opaque identifiers (asset keys,  *)
(* urls, the API key) are TLA+ strings.                                    *)
(***************************************************************************)
EXTENDS Integers, Sequences, FiniteSets, TLC

VARIABLES
    settings,          \* the parsed settings.json (read once, never written)
    files,             \* which of the two asset files exist in main_path
    use_direct_urls,   \* global, after the API-key validation
    custom_assets,     \* global, after the asset files were looked for
    exceptions_loaded, \* album_exceptions is a defined name
    assets_loaded,     \* album_asset_keys is a defined name
    album_exceptions,  \* set of album names needing the artist qualifier
    album_asset_keys,  \* set of [key, asset] pairs (the JSON object)
    previous_track,    \* global previous_track
    cleared,           \* global cleared
    presence,          \* what the presence client currently displays
    tick,              \* what the last completed (or aborted) tick did
    pc,                \* "poll": at the top of the loop; "crashed": the
                       \* process ended on an uncaught exception
    call,              \* a function applied on its own: its arguments
    ret                \* and what it returned

vars == <<settings, files, use_direct_urls, custom_assets, exceptions_loaded,
          assets_loaded, album_exceptions, album_asset_keys,
          previous_track, cleared, presence, tick, pc, call, ret>>

----------------------------------------------------------------------------
(* Python string primitives over character sequences.                      *)

Delim == <<" ", "-", " ">>

StartsWith(s, p) ==
    /\ Len(s) >= Len(p)
    /\ SubSeq(s, 1, Len(p)) = p

RECURSIVE SplitAcc(_, _, _)
\* str.split(sep): scan left to right, cut at each non-overlapping sep.
SplitAcc(s, sep, cur) ==
    IF s = <<>> THEN <<cur>>
    ELSE IF StartsWith(s, sep)
         THEN <<cur>> \o SplitAcc(SubSeq(s, Len(sep) + 1, Len(s)), sep, <<>>)
         ELSE SplitAcc(Tail(s), sep, Append(cur, Head(s)))

Split(s, sep) == SplitAcc(s, sep, <<>>)

RECURSIVE Join(_, _)
\* sep.join(parts)
Join(sep, parts) ==
    IF parts = <<>> THEN <<>>
    ELSE IF Len(parts) = 1 THEN parts[1]
    ELSE parts[1] \o sep \o Join(sep, Tail(parts))

RECURSIVE LStrip(_, _)
LStrip(s, chars) ==
    IF s # <<>> /\ Head(s) \in chars THEN LStrip(Tail(s), chars) ELSE s

RECURSIVE RStrip(_, _)
RStrip(s, chars) ==
    IF s # <<>> /\ s[Len(s)] \in chars
    THEN RStrip(SubSeq(s, 1, Len(s) - 1), chars) ELSE s

\* str.strip(chars): chars is a SET of characters removed from both ends.
Strip(s, chars) == RStrip(LStrip(s, chars), chars)

DigitChar(d) ==
    CASE d = 0 -> "0" [] d = 1 -> "1" [] d = 2 -> "2" [] d = 3 -> "3"
      [] d = 4 -> "4" [] d = 5 -> "5" [] d = 6 -> "6" [] d = 7 -> "7"
      [] d = 8 -> "8" [] d = 9 -> "9"

RECURSIVE DecStr(_)
\* str(n) for n >= 0
DecStr(n) ==
    IF n < 10 THEN <<DigitChar(n)>>
    ELSE Append(DecStr(n \div 10), DigitChar(n % 10))

CharsOf(s) == { s[i] : i \in 1..Len(s) }

\* list[:-1]
DropLast(xs) == IF xs = <<>> THEN <<>> ELSE SubSeq(xs, 1, Len(xs) - 1)

----------------------------------------------------------------------------
(* Literals of the program.                                                *)

TrackLabel == <<"T", "r", "a", "c", "k", ":", " ">>      \* f"Track: {...}"
AlbumLabel == <<"A", "l", "b", "u", "m", ":", " ">>      \* f"Album: {...}"
ByLabel    == <<"b", "y", " ">>                          \* f"by {artist}"
winamp_version == <<"5", ".", "9">>                      \* w.version
VersionBanner == <<"W", "i", "n", "a", "m", "p", " ", "v">> \o winamp_version
Placeholder == "YOUR_LASTFM_API_KEY_HERE"
Logo == "logo"
MinTextLen == 2
SentinelSeconds == 100000

\* Python's None for an image url / album name that was not found.
None == "None"

----------------------------------------------------------------------------
(* update_rpc, lines 43-53: parsing and the start timestamp.               *)

\* f"{track_pos + 1}. " as the character SET str.strip() receives
StripChars(track_pos) == CharsOf(DecStr(track_pos + 1) \o <<".", " ">>)

\* trackinfo = trackinfo_raw.split(" - ")[:-1]
TrackInfo(raw) == DropLast(Split(raw, Delim))

\* artist = trackinfo[0].strip(f"{track_pos + 1}. ")
ParseArtist(trackinfo, track_pos) == Strip(trackinfo[1], StripChars(track_pos))

\* track_name = " - ".join(trackinfo[1:]), then the "Track: " padding
ParseTrackName(trackinfo) ==
    LET track_name == Join(Delim, Tail(trackinfo))
    IN  IF Len(track_name) < MinTextLen THEN TrackLabel \o track_name
        ELSE track_name

\* A time is [s, ms]: whole seconds and milliseconds 0..999.  The player
\* reports integer milliseconds; pos = ms / 1000 is  s + ms/1000.

\* mutant: the threshold compared with the milliseconds the player reports
NormalizePos_ms(pos) ==
    IF pos.s * 1000 + pos.ms >= SentinelSeconds THEN [s |-> 0, ms |-> 0]
    ELSE pos

\* mutant: the threshold itself is not normalized
NormalizePos_gt(pos) ==
    IF pos.s > SentinelSeconds THEN [s |-> 0, ms |-> 0] ELSE pos

\* if pos >= 100000: pos = 0
NormalizePos(pos) ==
    IF pos.s >= SentinelSeconds THEN [s |-> 0, ms |-> 0] ELSE pos

\* int(now - pos) for now >= pos (truncation = floor there)
StartOf(now, pos) ==
    LET p == NormalizePos(pos)
    IN  IF now.ms >= p.ms THEN now.s - p.s ELSE now.s - p.s - 1

----------------------------------------------------------------------------
(* The Last.FM tiers.  A response is what requests.get(...).json() did:    *)
(*   kind "neterror" | "timeout" | "badjson": an exception inside the try  *)
(*   kind "notfound": JSON without the track/album (topalbums/album) keys  *)
(*   kind "found": an album object with a title and an image array.        *)
(* A title is [t, s]: t = "str" with the characters s, or t = "num" for a  *)
(* JSON value that is not a string (nothing in the code checks the type).  *)

StrVal(s) == [t |-> "str", s |-> s]
NumVal    == [t |-> "num", s |-> <<>>]
NoneVal   == [t |-> "none", s |-> <<>>]

\* Python truthiness of an album name / of an image url
Truthy(v) == \/ v.t = "num"
             \/ (v.t = "str" /\ v.s # <<>>)
TruthyUrl(u) == u # None /\ u # ""

size_priority == <<"extralarge", "large", "medium", "small">>

\* first index of images matching P, 0 if none
FirstBySize(images, size) ==
    LET hits == { i \in 1..Len(images) :
                    images[i].size = size /\ images[i].url # "" }
    IN  IF hits = {} THEN 0 ELSE CHOOSE i \in hits : \A j \in hits : i <= j

FirstAny(images) ==
    LET hits == { i \in 1..Len(images) : images[i].url # "" }
    IN  IF hits = {} THEN 0 ELSE CHOOSE i \in hits : \A j \in hits : i <= j

\* mutant: the first entry with a url wins, whatever its size
get_largest_image_first(images) ==
    IF FirstAny(images) # 0 THEN images[FirstAny(images)].url ELSE None

get_largest_image(images) ==
    IF images = <<>> THEN None
    ELSE LET sizes == { k \in 1..Len(size_priority) :
                          FirstBySize(images, size_priority[k]) # 0 }
         IN  IF sizes # {}
             THEN LET k == CHOOSE k \in sizes : \A l \in sizes : k <= l
                  IN  images[FirstBySize(images, size_priority[k])].url
             ELSE IF FirstAny(images) # 0 THEN images[FirstAny(images)].url
             ELSE None

Failed(resp) == resp.kind \in {"neterror", "timeout", "badjson"}

\* returns [name, url]
get_album_from_track(resp) ==
    IF Failed(resp) \/ resp.kind = "notfound"
    THEN [name |-> NoneVal, url |-> None]
    ELSE [name |-> resp.title, url |-> get_largest_image(resp.images)]

get_album_from_artist(resp) ==
    IF Failed(resp) \/ resp.kind = "notfound"
    THEN [name |-> NoneVal, url |-> None]
    ELSE [name |-> resp.title, url |-> get_largest_image(resp.images)]

\* mutant: only a missing album name sends the lookup to the artist tier
NeedsArtistTier_name(t1) == ~Truthy(t1.name)

\* if not album_name or not image_url: (line 86)
NeedsArtistTier(t1) == ~Truthy(t1.name) \/ ~TruthyUrl(t1.url)

\* mutant: no "logo" sentinel behind an empty fallback_image_url
FallbackKey_empty(fallback_image_url) == fallback_image_url

\* fallback_image_url if fallback_image_url else "logo"
FallbackKey(fallback_image_url) ==
    IF fallback_image_url # "" THEN fallback_image_url ELSE Logo

\* the except branch, line 103
RemoteExcept(artist, fallback_image_url) ==
    [key |-> FallbackKey(fallback_image_url), text |-> artist]

\* get_album_art_url(artist, track_name) with the two responses the
\* service would give.  clean_string only shapes the request parameters.
\* Returns [key, text, tiers, raised]: tiers = number of requests made,
\* raised = the outer try's except branch was taken.
get_album_art_url(artist, r1, r2, fallback_image_url) ==
    LET t1    == get_album_from_track(r1)
        again == NeedsArtistTier(t1)
        kept  == IF again THEN get_album_from_artist(r2) ELSE t1
        large_asset_text == IF Truthy(kept.name) THEN kept.name
                            ELSE StrVal(artist)
        image_url == IF ~TruthyUrl(kept.url)
                     THEN FallbackKey(fallback_image_url) ELSE kept.url
        tiers == IF again THEN 2 ELSE 1
    IN  IF large_asset_text.t # "str"
        THEN \* len() of a non-string raises TypeError, caught at line 101
             RemoteExcept(artist, fallback_image_url)
                 @@ [tiers |-> tiers, raised |-> TRUE]
        ELSE [key  |-> image_url,
              text |-> IF Len(large_asset_text.s) < MinTextLen
                       THEN AlbumLabel \o large_asset_text.s
                       ELSE large_asset_text.s,
              tiers |-> tiers, raised |-> FALSE]

----------------------------------------------------------------------------
(* The local strategy, get_album_art (lines 201-230).  A playlist is the   *)
(* sequence of the album folder names of its entries:                      *)
(* os.path.basename(os.path.dirname(path)).                                *)

WinampVersionMode == <<"w", "i", "n", "a", "m", "p", " ",
                       "v", "e", "r", "s", "i", "o", "n">>
AlbumNameMode == <<"a", "l", "b", "u", "m", " ", "n", "a", "m", "e">>

\* album_asset_keys[album_key], the asset of a key that is present
AssetOf(album_key) ==
    (CHOOSE e \in album_asset_keys : e.key = album_key).asset

HasAsset(album_key) == \E e \in album_asset_keys : e.key = album_key

\* lines 220-225
DefaultText(album_name) ==
    IF settings.default_large_asset_text = WinampVersionMode
    THEN VersionBanner
    ELSE IF settings.default_large_asset_text = AlbumNameMode
         THEN album_name
         ELSE settings.default_large_asset_text

\* lines 227-228
PadAlbum(text) ==
    IF Len(text) < MinTextLen THEN AlbumLabel \o text ELSE text

\* Returns [key, text, hit, raised]: raised = "" or the uncaught exception.
get_album_art(track_position, artist, playlist) ==
    IF track_position + 1 > Len(playlist)
    THEN [key |-> None, text |-> <<>>, hit |-> FALSE,
          raised |-> "IndexError"]
    ELSE LET album_name == playlist[track_position + 1]
         IN  IF ~exceptions_loaded
             THEN [key |-> None, text |-> <<>>, hit |-> FALSE,
                   raised |-> "NameError"]
             ELSE LET album_key ==
                        IF album_name \in album_exceptions
                        THEN artist \o Delim \o album_name
                        ELSE album_name
                  IN  IF ~assets_loaded
                      THEN [key |-> None, text |-> <<>>, hit |-> FALSE,
                   raised |-> "NameError"]
                      ELSE IF HasAsset(album_key)
                      THEN [key |-> AssetOf(album_key),
                            text |-> PadAlbum(album_name), hit |-> TRUE,
                            raised |-> ""]
                      ELSE [key |-> settings.default_large_asset_key,
                            text |-> PadAlbum(DefaultText(album_name)),
                            hit |-> FALSE, raised |-> ""]

----------------------------------------------------------------------------
(* Settings and start-up (lines 236-299).                                  *)

\* settings.json.  A key is varied only in the files where the program
\* reads it: lastfm_api_key when use_direct_urls is set (line 272),
\* fallback_image_url when the remote strategy runs, default_large_asset_text
\* when the local strategy can run.
SettingsFiles ==
    { st \in [ use_direct_urls : BOOLEAN,
               lastfm_api_key : {"", Placeholder, "k3y"},
               custom_assets : BOOLEAN,
               fallback_image_url : {"", "http://fallback/img.png"},
               default_large_asset_key : {"default_art"},
               default_large_asset_text :
                   {WinampVersionMode, AlbumNameMode, <<"x">>},
               small_asset_key : {"playbutton"},
               small_asset_text : {<<"P", "l", "a", "y", "i", "n", "g">>} ] :
        LET remote == st.use_direct_urls /\ st.lastfm_api_key = "k3y"
        IN  /\ (~st.use_direct_urls => st.lastfm_api_key = "")
            /\ (~remote => st.fallback_image_url = "")
            /\ (remote \/ ~st.custom_assets
                   => st.default_large_asset_text = WinampVersionMode) }

\* album_name_exceptions.txt and album_covers.json when they exist
ExceptionsFile == { <<"G", "H">> }
CoversFile ==
    { [key |-> <<"A", "l">>, asset |-> "al_cover"],
      [key |-> <<"G">>, asset |-> "g_cover"],
      [key |-> <<"A", "B", " ", "-", " ", "G", "H">>, asset |-> "ab_gh_cover"] }

\* album_name_exceptions.txt / album_covers.json exist or not; the files are
\* opened only at lines 289 and 295
AssetFiles == [exceptions : BOOLEAN, covers : BOOLEAN]

\* main_path as it is before the user adds asset files; where line 287
\* skips the loading no file is opened, and this one stands for all
NoAssetFiles == [exceptions |-> FALSE, covers |-> FALSE]

\* line 272
KeyMissing(st) == st.lastfm_api_key = "" \/ st.lastfm_api_key = Placeholder

\* mutant: lines 272-276 left out
DirectUrlsAfterValidation_unchecked(st) == st.use_direct_urls

\* lines 259, 272-276
DirectUrlsAfterValidation(st) == st.use_direct_urls /\ ~KeyMissing(st)

\* mutant: line 287 tests the flag of settings.json, not the validated one
LoadsAssetFiles_configured(st) == st.custom_assets /\ ~st.use_direct_urls

\* line 287
LoadsAssetFiles(st) == st.custom_assets /\ ~DirectUrlsAfterValidation(st)

NoPresence ==
    [shown |-> FALSE, details |-> <<>>, state |-> <<>>, start |-> 0,
     large_image |-> None, large_text |-> <<>>,
     small_image |-> None, small_text |-> <<>>]

NoTime == [s |-> 0, ms |-> 0]

NoTick ==
    [status |-> "none", was_cleared |-> FALSE,
     read |-> FALSE, raw |-> <<>>, track_pos |-> 0,
     artist |-> <<>>, title |-> <<>>, changed |-> FALSE,
     pos |-> NoTime, now |-> NoTime,
     clears |-> 0, pushes |-> 0, resolves |-> 0, requests |-> 0,
     path |-> "none", error |-> ""]

NoCall == [fn |-> "none"]
NoRet == [done |-> FALSE]

\* the globals after lines 236-299
Started ==
    /\ settings \in SettingsFiles
    /\ use_direct_urls = DirectUrlsAfterValidation(settings)
    /\ files \in IF LoadsAssetFiles(settings) THEN AssetFiles
                 ELSE {NoAssetFiles}
    /\ \E have_exceptions \in {LoadsAssetFiles(settings) /\ files.exceptions},
          have_covers \in {LoadsAssetFiles(settings) /\ files.covers} :
          /\ exceptions_loaded = LoadsAssetFiles(settings)
          /\ album_exceptions =
                 IF have_exceptions THEN ExceptionsFile ELSE {}
          /\ assets_loaded = have_covers
          /\ album_asset_keys = IF have_covers THEN CoversFile ELSE {}
          /\ custom_assets =
                 IF LoadsAssetFiles(settings) THEN have_covers
                 ELSE settings.custom_assets
    /\ previous_track = <<>>
    /\ cleared = FALSE
    /\ presence = NoPresence
    /\ tick = NoTick
    /\ pc = "poll"

Init ==
    /\ Started
    /\ call = NoCall
    /\ ret = NoRet

----------------------------------------------------------------------------
(* What the collaborators can hand to one tick.                            *)

\* The player's library: the playlist is its first MaxPos + 1 entries, the
\* entry at playlist position p is Library[p + 1].
Library ==
    << [artist |-> <<"1", "A">>, title |-> <<"S">>,
        album |-> <<"A", "l">>],
       [artist |-> <<"A", "B">>, title |-> <<"S", " ", "-", " ", "T">>,
        album |-> <<"G", "H">>],
       [artist |-> <<"A">>, title |-> <<"S", "o">>,
        album |-> <<"G">>],
       [artist |-> <<"B", ".">>, title |-> <<"S", "o">>,
        album |-> <<>>],
       [artist |-> <<"C">>, title |-> <<"T">>,
        album |-> <<"Z">>] >>

MaxPos == 3

PlayerName == <<"W", "i", "n", "a", "m", "p">>

\* "{tracknum}. {artist} - {track title} - Winamp" (comment of line 39)
Format(track_pos, artist, title) ==
    DecStr(track_pos + 1) \o <<".", " ">> \o artist \o Delim \o title
        \o Delim \o PlayerName

\* w.get_track_title() together with w.get_playlist_position()
WellFormed ==
    { [raw |-> Format(p, Library[p + 1].artist, Library[p + 1].title),
       track_pos |-> p, artist |-> Library[p + 1].artist,
       title |-> Library[p + 1].title, wellformed |-> TRUE] :
          p \in 0..MaxPos }

\* a title without the " - " delimiter, and the empty title
Malformed ==
    { [raw |-> r, track_pos |-> 0, artist |-> <<>>, title |-> <<>>,
       wellformed |-> FALSE] : r \in { <<>>, PlayerName } }

NowPlaying == WellFormed \cup Malformed

\* w.get_track_status()[1] in milliseconds, as [s, ms]
TrackPositions ==
    { [s |-> 4000, ms |-> 0], [s |-> 99999, ms |-> 999],
      [s |-> 100000, ms |-> 0] }

\* time.time()
Nows == { [s |-> 1700000000, ms |-> 250] }

AlbumTitles == { StrVal(<<>>), StrVal(<<"B">>), StrVal(<<"B", "H">>), NumVal }
ImageSets ==
    { <<>>,
      <<[size |-> "small", url |-> "http://img/small"]>> }

Responses ==
    { [kind |-> k, title |-> NoneVal, images |-> <<>>] :
          k \in {"neterror", "timeout", "badjson", "notfound"} }
    \cup { [kind |-> "found", title |-> t, images |-> im] :
               t \in AlbumTitles, im \in ImageSets }

NoResponse == [kind |-> "none", title |-> NoneVal, images |-> <<>>]

\* w.get_playlist(...) after w.dump_playlist(): the album folder of every
\* playlist entry, or a list that stops short of the current position
AlbumFolders == [ p \in 1..(MaxPos + 1) |-> Library[p].album ]
Playlists == { AlbumFolders, <<>> }

PlayingStatus == { "Stopped", "Playing", "Paused", "Other" }

----------------------------------------------------------------------------
(* The poll loop (lines 309-318) and update_rpc (lines 36-66).             *)

\* mutant: the test read as (Paused or Stopped) and not cleared
ShouldClear_grouped(status, is_cleared) ==
    (status = "Paused" \/ status = "Stopped") /\ ~is_cleared

\* mutant: Stopped clears whatever the flag says
ShouldClear_unguarded(status, is_cleared) ==
    status = "Paused" \/ status = "Stopped"

\* line 311: `or` binds weaker than `and`
ShouldClear(status, is_cleared) ==
    status = "Paused" \/ (status = "Stopped" /\ ~is_cleared)

\* line 41
TrackChanged(trackinfo_raw, previous) == trackinfo_raw # previous

\* lines 56-62: which strategy the globals select
Strategy(direct, custom) ==
    IF direct THEN "remote" ELSE IF custom THEN "local" ELSE "static"

Observed(status) ==
    [NoTick EXCEPT !.status = status, !.was_cleared = cleared]

\* mutant: the clear branch without line 313
ClearTick_keepsTrack(status) ==
    /\ ShouldClear(status, cleared)
    /\ presence' = NoPresence
    /\ cleared' = TRUE
    /\ tick' = [Observed(status) EXCEPT !.clears = 1]
    /\ pc' = "poll"
    /\ UNCHANGED previous_track

\* lines 312-314
ClearTick(status) ==
    /\ ShouldClear(status, cleared)
    /\ presence' = NoPresence
    /\ previous_track' = <<>>
    /\ cleared' = TRUE
    /\ tick' = [Observed(status) EXCEPT !.clears = 1]
    /\ pc' = "poll"

\* neither branch of the if / elif
IdleTick(status) ==
    /\ ~ShouldClear(status, cleared)
    /\ status # "Playing"
    /\ tick' = Observed(status)
    /\ UNCHANGED <<presence, previous_track, cleared, pc>>

Heard(np) ==
    [Observed("Playing") EXCEPT !.read = TRUE, !.raw = np.raw,
        !.track_pos = np.track_pos, !.artist = np.artist,
        !.title = np.title]

\* update_rpc, trackinfo_raw == previous_track
UnchangedTick(np) ==
    /\ ~TrackChanged(np.raw, previous_track)
    /\ tick' = Heard(np)
    /\ UNCHANGED <<presence, previous_track, cleared, pc>>

\* update_rpc, line 45: trackinfo[0] of an empty list
MalformedTick(np) ==
    /\ TrackChanged(np.raw, previous_track)
    /\ TrackInfo(np.raw) = <<>>
    /\ previous_track' = np.raw
    /\ tick' = [Heard(np) EXCEPT !.changed = TRUE, !.error = "IndexError"]
    /\ pc' = "crashed"
    /\ UNCHANGED <<presence, cleared>>

\* rpc.update(...) of lines 64-65
Pushed(track_name, artist, start, large_asset_key, large_asset_text) ==
    [shown |-> TRUE, details |-> track_name, state |-> ByLabel \o artist,
     start |-> start, large_image |-> large_asset_key,
     large_text |-> large_asset_text,
     small_image |-> settings.small_asset_key,
     small_text |-> settings.small_asset_text]

\* mutant: update_rpc without its last line
ClearedAfterPush_kept == cleared

\* mutant: the last line of update_rpc sets the flag instead
ClearedAfterPush_set == TRUE

\* line 66
ClearedAfterPush == FALSE

\* lines 56-62: [key, text, requests, path, raised]
Resolve(mode, track_pos, artist, r1, r2, playlist) ==
    IF mode = "remote"
    THEN LET res == get_album_art_url(artist, r1, r2,
                                      settings.fallback_image_url)
         IN  [key |-> res.key, text |-> res.text, requests |-> res.tiers,
              path |-> IF res.raised THEN "remote-except" ELSE "remote",
              raised |-> ""]
    ELSE IF mode = "local"
    THEN LET res == get_album_art(track_pos, artist, playlist)
         IN  [key |-> res.key, text |-> res.text, requests |-> 0,
              path |-> IF res.raised # "" THEN "local-raise"
                       ELSE IF res.hit THEN "local-hit" ELSE "local-miss",
              raised |-> res.raised]
    ELSE [key |-> Logo, text |-> VersionBanner, requests |-> 0,
          path |-> "static", raised |-> ""]

\* update_rpc, lines 47-66, once artist and track_name are parsed and the
\* strategy of lines 56-62 has returned res (or raised)
ChangedTick(np, artist, track_name, pos, now, res) ==
    LET seen == [Heard(np) EXCEPT !.changed = TRUE, !.pos = pos,
                    !.now = now, !.resolves = 1,
                    !.requests = res.requests, !.path = res.path]
    IN  /\ previous_track' = np.raw
        /\ \/ /\ res.raised = ""
              /\ presence' = Pushed(track_name, artist, StartOf(now, pos),
                                    res.key, res.text)
              /\ cleared' = ClearedAfterPush
              /\ tick' = [seen EXCEPT !.pushes = 1]
              /\ pc' = "poll"
           \/ /\ res.raised # ""
              /\ tick' = [seen EXCEPT !.error = res.raised]
              /\ pc' = "crashed"
              /\ UNCHANGED <<presence, cleared>>

\* update_rpc(): every input is read only on the path that asks for it.
\* (\E x \in {e} names the value of e once.)
update_rpc ==
    \E np \in NowPlaying :
        \/ UnchangedTick(np)
        \/ MalformedTick(np)
        \/ /\ TrackChanged(np.raw, previous_track)
           /\ \E trackinfo \in {TrackInfo(np.raw)} :
              /\ trackinfo # <<>>
              /\ \E artist \in {ParseArtist(trackinfo, np.track_pos)},
                    track_name \in {ParseTrackName(trackinfo)},
                    mode \in {Strategy(use_direct_urls, custom_assets)} :
                 \E pos \in TrackPositions, now \in Nows,
                    r1 \in IF mode = "remote" THEN Responses
                           ELSE {NoResponse} :
                 \E r2 \in IF mode = "remote"
                              /\ NeedsArtistTier(get_album_from_track(r1))
                           THEN Responses ELSE {NoResponse},
                    playlist \in IF mode = "local" THEN Playlists
                                 ELSE {<<>>} :
                 \E res \in {Resolve(mode, np.track_pos, artist,
                                     r1, r2, playlist)} :
                     ChangedTick(np, artist, track_name, pos, now, res)

\* what no tick writes
SettingsKept ==
    UNCHANGED <<settings, files, use_direct_urls, custom_assets,
                exceptions_loaded, assets_loaded, album_exceptions,
                album_asset_keys, call, ret>>

\* one iteration of `while True`, by the branch of lines 311-317 it takes
PollClear ==
    /\ pc = "poll"
    /\ \E status \in PlayingStatus : ClearTick(status)
    /\ SettingsKept

PollUpdate ==
    /\ pc = "poll"
    /\ ~ShouldClear("Playing", cleared)
    /\ update_rpc
    /\ SettingsKept

PollIdle ==
    /\ pc = "poll"
    /\ \E status \in PlayingStatus : IdleTick(status)
    /\ SettingsKept

Tick == PollClear \/ PollUpdate \/ PollIdle

Next == Tick

Spec == Init /\ [][Next]_vars

----------------------------------------------------------------------------
(* get_album_art_url applied on its own: every artist the parser can       *)
(* yield, every pair of tier responses, every fallback_image_url.          *)

ParsedArtists == { <<>>, <<"A">>, <<"A", "B">> }

\* an album the service lists with a small image only
BestHits ==
    [kind |-> "found",
     title |-> StrVal(<<"B", "e", "s", "t", " ", "H", "i", "t", "s">>),
     images |-> <<[size |-> "small", url |-> "http://img/small"]>>]

RemoteResponses == Responses \cup {BestHits}

InitRemote ==
    /\ Started
    /\ use_direct_urls
    /\ call \in [fn : {"get_album_art_url"}, artist : ParsedArtists,
                 r1 : RemoteResponses, r2 : RemoteResponses]
    /\ ret = NoRet

CallRemote ==
    /\ call.fn = "get_album_art_url"
    /\ ~ret.done
    /\ ret' = [done |-> TRUE,
               val |-> get_album_art_url(call.artist, call.r1, call.r2,
                                         settings.fallback_image_url)]
    /\ UNCHANGED <<settings, files, use_direct_urls, custom_assets,
                   exceptions_loaded, assets_loaded, album_exceptions,
                   album_asset_keys, previous_track, cleared, presence,
                   tick, pc, call>>

NextRemote == CallRemote

SpecRemote == InitRemote /\ [][NextRemote]_vars

----------------------------------------------------------------------------
(* Properties.  tick describes the tick that led to the current state:     *)
(* tick.changed is the test of line 41, tick.was_cleared the value of      *)
(* cleared when the tick began.                                            *)

\* the raw title has an artist segment: at least 2 segments around " - "
HasArtistSegment(raw) == TrackInfo(raw) # <<>>

PlayingTick == tick.status = "Playing" /\ tick.read

NoCalls ==
    /\ tick.pushes = 0 /\ tick.clears = 0
    /\ tick.resolves = 0 /\ tick.requests = 0

\* C1: in a run of Playing ticks over one unchanged, non-empty,
\* well-formed raw title, the tick that detects the title makes exactly one
\* presence push and exactly one artwork resolution, and every later tick
\* of the run makes no presence call and no metadata-service call.
C1_DedupOnePush ==
    (PlayingTick /\ tick.raw # <<>> /\ HasArtistSegment(tick.raw))
        => IF tick.changed
           THEN tick.pushes = 1 /\ tick.resolves = 1 /\ tick.clears = 0
           ELSE NoCalls /\ previous_track = tick.raw

\* C2: a Paused tick (whatever cleared was) and a Stopped tick that began
\* with cleared = FALSE invoke presence-clear exactly once, reset
\* previous_track to "" and set cleared; a Paused tick that follows a
\* Paused tick clears again.
C2_ClearTransition ==
    /\ [] ( ( \/ tick.status = "Paused"
              \/ (tick.status = "Stopped" /\ ~tick.was_cleared) )
            => ( /\ tick.clears = 1 /\ tick.pushes = 0
                 /\ previous_track = <<>> /\ cleared
                 /\ ~presence.shown /\ pc = "poll" ) )
    /\ [][ (tick.status = "Paused" /\ tick'.status = "Paused")
             => (tick'.was_cleared /\ tick'.clears = 1) ]_vars

\* a Paused tick that began with cleared = TRUE and cleared again
C2_Witness ==
    /\ tick.status = "Paused" /\ tick.was_cleared
    /\ tick.clears = 1 /\ cleared /\ previous_track = <<>>

\* C3: a tick that begins with cleared = TRUE never invokes presence-clear.
C3_NoRedundantClear == tick.was_cleared => tick.clears = 0

\* C4: cleared = TRUE implies that the display shows nothing; a tick that
\* pushed ends with cleared = FALSE; cleared turns TRUE only in a tick that
\* invoked presence-clear.
C4_ClearedMeansEmpty ==
    /\ cleared => ~presence.shown
    /\ tick.pushes > 0 => (~cleared /\ presence.shown)
    /\ (cleared /\ ~tick.was_cleared) => tick.clears = 1
    /\ (cleared /\ tick.was_cleared /\ tick.clears = 0) => tick.pushes = 0

\* a push that followed a clear and turned cleared off again
C4_Witness ==
    /\ tick.was_cleared /\ tick.pushes = 1
    /\ ~cleared /\ presence.shown

\* C5: every Playing tick that detects a changed, well-formed raw title
\* pushes exactly once and returns to the loop, in each dispatch mode and
\* whatever call of the artwork resolution failed.
C5_PushDespiteResolverFailure ==
    (PlayingTick /\ tick.changed /\ HasArtistSegment(tick.raw))
        => (tick.pushes = 1 /\ presence.shown /\ pc = "poll")

\* C6: a Playing tick that reads a changed raw title with fewer than 2
\* " - " segments pushes nothing and the loop goes on to its next tick.
C6_MalformedIsRecoverable ==
    (PlayingTick /\ tick.changed /\ ~HasArtistSegment(tick.raw))
        => (tick.pushes = 0 /\ pc = "poll")


\* an image url was found in the response
FoundImage(resp) ==
    resp.kind = "found" /\ \E i \in 1..Len(resp.images) : resp.images[i].url # ""

\* the response is one of: error, timeout, unparsable, not found, found
\* with a string title
Listed(resp) == resp.kind = "found" => resp.title.t = "str"

\* the track tier gave both an album title and an image url
TrackTierComplete(resp) ==
    /\ FoundImage(resp)
    /\ resp.title.t = "num" \/ resp.title.s # <<>>

\* the tier whose result is kept
KeptResponse == IF TrackTierComplete(call.r1) THEN call.r1 ELSE call.r2

\* C7: for every pair of tier outcomes get_album_art_url returns a pair
\* through one of its two return statements; the key is an image url of the
\* kept tier when that tier found one, else fallback_image_url when that is
\* non-empty, else "logo"; the key is never empty.
C7_RemoteTotal ==
    ret.done =>
        /\ ret.val.key \notin {"", None}
        /\ ret.val.raised =>
               ret.val.key = IF settings.fallback_image_url # ""
                             THEN settings.fallback_image_url ELSE "logo"
        /\ (Listed(call.r1) /\ Listed(call.r2)) =>
               /\ ~ret.val.raised
               /\ IF FoundImage(KeptResponse)
                  THEN \E i \in 1..Len(KeptResponse.images) :
                          ret.val.key = KeptResponse.images[i].url
                  ELSE ret.val.key = IF settings.fallback_image_url # ""
                                     THEN settings.fallback_image_url
                                     ELSE "logo"

\* both tiers failed and no fallback_image_url is configured: "logo"
C7_Witness ==
    /\ ret.done /\ ~ret.val.raised
    /\ call.r1.kind = "timeout" /\ call.r2.kind = "badjson"
    /\ settings.fallback_image_url = "" /\ ret.val.key = "logo"

\* C8: every presence push carries a details text and a large-image text
\* of at least 2 characters.
C8_MinTextLength ==
    presence.shown =>
        /\ Len(presence.details) >= MinTextLen
        /\ Len(presence.large_text) >= MinTextLen

\* C9: the pushed artist is the {artist} of the raw title
\* "{k}. {artist} - {title} - {player}", k the playlist position plus 1.
C9_ArtistParsedExactly ==
    tick.pushes = 1 => presence.state = ByLabel \o tick.artist

FourMillionMs == [s |-> 4000, ms |-> 0]

\* C10 as stated: a reported position of 4000000 ms is normalized to 0, so
\* that the pushed start is the current time in whole seconds.
C10_FourMillionMsReset ==
    (tick.pushes = 1 /\ tick.pos = FourMillionMs)
        => presence.start = tick.now.s

\* C10 amended: a reported position of 4000000 ms is 4000 s, below the
\* threshold of 100000 s, and is kept: the pushed start is int(now - 4000);
\* a position of at least 100000 s is normalized to 0, and the pushed start
\* is then the current time in whole seconds.
C10_SentinelInSeconds ==
    tick.pushes = 1 =>
        /\ tick.pos = FourMillionMs
               => presence.start = tick.now.s - FourMillionMs.s
        /\ tick.pos.s >= SentinelSeconds => presence.start = tick.now.s

\* a push at 4000000 ms whose start lies 4000 s before now
C10_Witness ==
    /\ tick.pushes = 1 /\ tick.pos = FourMillionMs
    /\ presence.start = tick.now.s - FourMillionMs.s
    /\ presence.start # tick.now.s


\* settings.json asks for direct urls without a usable API key
Downgraded == settings.use_direct_urls /\ KeyMissing(settings)

LocalPaths == {"local-hit", "local-miss", "local-raise"}

\* C11 as stated: after the downgrade every track change is resolved by
\* the local strategy, whatever custom_assets is configured to.
C11_DowngradeAlwaysLocal ==
    (Downgraded /\ tick.resolves = 1)
        => (~use_direct_urls /\ tick.path \in LocalPaths)

\* C11 amended: after the downgrade no track change is resolved by the
\* remote strategy; it is resolved by the local strategy when custom_assets
\* is configured true and album_covers.json exists, and by the static
\* default otherwise.
C11_DowngradeNeverRemote ==
    Downgraded =>
        /\ ~use_direct_urls
        /\ tick.resolves = 1 =>
               /\ tick.requests = 0
               /\ IF settings.custom_assets /\ assets_loaded
                  THEN tick.path \in LocalPaths
                  ELSE tick.path = "static"

\* a downgraded run that resolved a track change from the local mapping
C11_Witness ==
    /\ Downgraded /\ settings.custom_assets
    /\ tick.resolves = 1 /\ tick.path = "local-hit"

-----------------------------------------------------------------------------
(* clean_string, lines 106-112, applied on its own to every text over the  *)
(* characters the three patterns tell apart.                               *)

\* what \s matches and str.strip() removes
Whitespace == {" ", "\n"}

\* the first index >= i of s holding character c, 0 when there is none
RECURSIVE IndexFrom(_, _, _)
IndexFrom(s, c, i) ==
    IF i > Len(s) THEN 0
    ELSE IF s[i] = c THEN i
    ELSE IndexFrom(s, c, i + 1)

\* "." matches every character but the newline
DotAll(s, i, j) == \A k \in i .. j : s[k] # "\n"

\* re.sub(open .*? close, '', s): leftmost non-overlapping non-greedy
\* matches, each from an opening character to the first closing character
\* after it on the same line
RECURSIVE RemoveGroups(_, _, _)
RemoveGroups(s, open, close) ==
    IF s = <<>> THEN <<>>
    ELSE LET j == IndexFrom(s, close, 2)
         IN  IF Head(s) = open /\ j # 0 /\ DotAll(s, 2, j - 1)
             THEN RemoveGroups(SubSeq(s, j + 1, Len(s)), open, close)
             ELSE <<Head(s)>> \o RemoveGroups(Tail(s), open, close)

\* re.sub(r'\s+', ' ', s)
RECURSIVE CollapseWhitespace(_)
CollapseWhitespace(s) ==
    IF s = <<>> THEN <<>>
    ELSE IF Head(s) \in Whitespace
         THEN <<" ">> \o CollapseWhitespace(LStrip(s, Whitespace))
         ELSE <<Head(s)>> \o CollapseWhitespace(Tail(s))

clean_string(text) ==
    Strip(CollapseWhitespace(
              RemoveGroups(RemoveGroups(text, "(", ")"), "[", "]")),
          Whitespace)

MaxTextLen == 3

TextChars == {"a", " ", "\n", "(", ")", "[", "]"}

Texts == UNION { [1 .. n -> TextChars] : n \in 0 .. MaxTextLen }

InitClean ==
    /\ Started
    /\ use_direct_urls
    /\ call \in [fn : {"clean_string"}, text : Texts]
    /\ ret = NoRet

CallClean ==
    /\ call.fn = "clean_string"
    /\ ~ret.done
    /\ ret' = [done |-> TRUE, val |-> clean_string(call.text)]
    /\ UNCHANGED <<settings, files, use_direct_urls, custom_assets,
                   exceptions_loaded, assets_loaded, album_exceptions,
                   album_asset_keys, previous_track, cleared, presence,
                   tick, pc, call>>

NextClean == CallClean

SpecClean == InitClean /\ [][NextClean]_vars

\* C12: cleaning is idempotent: cleaning a cleaned text changes nothing.
C12_CleanIdempotent ==
    (call.fn = "clean_string" /\ ret.done)
        => clean_string(ret.val) = ret.val

\* the tick that led here read Stopped while cleared was true, or a status
\* that is none of Playing, Paused and Stopped
NoOpStatus ==
    \/ tick.status = "Stopped" /\ tick.was_cleared
    \/ tick.status \notin {"none", "Playing", "Paused", "Stopped"}

\* C13: a tick that reads Stopped while cleared is true, or a status that is
\* none of Playing, Paused and Stopped, makes no presence call and leaves
\* previous_track, cleared and the display as they were.
C13_NoOpTick ==
    [][ NoOpStatus' =>
            /\ NoCalls'
            /\ previous_track' = previous_track
            /\ cleared' = cleared
            /\ presence' = presence ]_vars

\* a Stopped tick met the flag already set and did nothing
C13_Witness ==
    /\ tick.status = "Stopped" /\ tick.was_cleared
    /\ NoCalls /\ cleared

\* n is the integer part of now - p, for now >= p: 0 <= (now - p) - n < 1,
\* written in milliseconds
IntegerPartOfElapsed(n, now, p) ==
    LET rest == (now.s - p.s - n) * 1000 + (now.ms - p.ms)
    IN  0 <= rest /\ rest < 1000

\* C14: the start pushed on a track change is int(now - p) when the reported
\* position p is below 100000 seconds and int(now) when p is 100000 seconds
\* or more; the threshold is compared with the position in seconds.
C14_StartTimestamp ==
    tick.pushes = 1 =>
        IF tick.pos.s < 100000
        THEN IntegerPartOfElapsed(presence.start, tick.now, tick.pos)
        ELSE presence.start = tick.now.s

\* a push one millisecond below the threshold: the position is kept and the
\* start lies 100000 whole seconds before now
C14_Witness ==
    /\ tick.pushes = 1
    /\ tick.pos = [s |-> 99999, ms |-> 999]
    /\ presence.start = tick.now.s - 100000

\* the album title of the tier whose result is kept
KeptTitle ==
    IF KeptResponse.kind = "found" THEN KeptResponse.title ELSE NoneVal

\* C15 as stated: the artist tier is queried exactly when the track tier
\* lacks an album title or an image url; the display text is the kept album
\* title when that is non-empty, else the artist name as parsed.
C15_TierOrderAndTitle ==
    (call.fn = "get_album_art_url" /\ ret.done) =>
        /\ ret.val.tiers = IF TrackTierComplete(call.r1) THEN 1 ELSE 2
        /\ ret.val.text = IF KeptTitle.t = "str" /\ KeptTitle.s # <<>>
                          THEN KeptTitle.s ELSE call.artist

\* C15 amended: the artist tier is queried exactly when the track tier
\* lacks an album title or an image url; the display text is the kept album
\* title when that is a non-empty string, else the artist name as parsed,
\* either one prefixed with "Album: " when shorter than 2 characters; a kept
\* title that is not a string gives the artist name without the prefix.
\* With no album from the track tier and "Best Hits" with a small image from
\* the artist tier the result is that image url and "Best Hits".
C15_TierOrderAndPaddedTitle ==
    (call.fn = "get_album_art_url" /\ ret.done) =>
        /\ ret.val.tiers = IF TrackTierComplete(call.r1) THEN 1 ELSE 2
        /\ LET chosen == IF KeptTitle.t = "str" /\ KeptTitle.s # <<>>
                         THEN KeptTitle.s ELSE call.artist
           IN  ret.val.text =
                   IF Len(chosen) < 2 /\ KeptTitle.t # "num"
                   THEN <<"A", "l", "b", "u", "m", ":", " ">> \o chosen
                   ELSE chosen
        /\ (call.r1.kind = "notfound" /\ call.r2 = BestHits) =>
               /\ ret.val.key = "http://img/small"
               /\ ret.val.text = BestHits.title.s

\* the track tier knew no album, the artist tier gave "Best Hits"
C15_Witness ==
    /\ call.fn = "get_album_art_url" /\ ret.done
    /\ call.r1.kind = "notfound" /\ call.r2 = BestHits
    /\ ret.val.tiers = 2
    /\ ret.val.key = "http://img/small"
    /\ ret.val.text = BestHits.title.s

-----------------------------------------------------------------------------
(* get_largest_image, lines 180-198, applied on its own to every image     *)
(* array of up to MaxImages entries.                                       *)

MaxImages == 3

\* img.get('size'): the four sizes of size_priority and one that is not
ImageSizes == {"extralarge", "large", "medium", "small", "mega"}

\* img.get('#text'): empty, or one of two urls
ImageUrls == {"", "http://img/A", "http://img/B"}

ImageArrays ==
    UNION { [1 .. n -> [size : ImageSizes, url : ImageUrls]] :
                n \in 0 .. MaxImages }

InitImage ==
    /\ Started
    /\ use_direct_urls
    /\ settings.fallback_image_url = ""
    /\ call \in [fn : {"get_largest_image"}, images : ImageArrays]
    /\ ret = NoRet

CallImage ==
    /\ call.fn = "get_largest_image"
    /\ ~ret.done
    /\ ret' = [done |-> TRUE, val |-> get_largest_image(call.images)]
    /\ UNCHANGED <<settings, files, use_direct_urls, custom_assets,
                   exceptions_loaded, assets_loaded, album_exceptions,
                   album_asset_keys, previous_track, cleared, presence,
                   tick, pc, call>>

NextImage == CallImage

SpecImage == InitImage /\ [][NextImage]_vars

\* extralarge before large before medium before small
SizeRank(size) ==
    CASE size = "extralarge" -> 1 [] size = "large" -> 2
      [] size = "medium" -> 3 [] size = "small" -> 4

\* C16: the result is the url of the first entry with a non-empty url whose
\* size is the highest-priority size present with a non-empty url; when no
\* entry of the four sizes has a non-empty url it is the url of the first
\* entry with a non-empty url; it is none exactly when no entry has a
\* non-empty url.
C16_LargestImage ==
    (call.fn = "get_largest_image" /\ ret.done) =>
        LET images   == call.images
            with_url == { i \in 1 .. Len(images) : images[i].url # "" }
            sized    == { i \in with_url :
                            images[i].size \in
                              {"extralarge", "large", "medium", "small"} }
        IN  /\ ret.val = None <=> with_url = {}
            /\ sized # {} =>
                 \E i \in sized :
                    /\ ret.val = images[i].url
                    /\ \A j \in sized :
                         /\ SizeRank(images[i].size) <= SizeRank(images[j].size)
                         /\ images[j].size = images[i].size => i <= j
            /\ (sized = {} /\ with_url # {}) =>
                 \E i \in with_url :
                    /\ ret.val = images[i].url
                    /\ \A j \in with_url : i <= j

\* a large image listed before an extralarge one: the extralarge url
C16_Witness ==
    /\ call.fn = "get_largest_image" /\ ret.done
    /\ call.images = <<[size |-> "large", url |-> "http://img/A"],
                       [size |-> "extralarge", url |-> "http://img/B"]>>
    /\ ret.val = "http://img/B"

\* C17: after a tick that cleared the display, the first later Playing tick
\* whose raw title is non-empty and well-formed pushes, whatever the title
\* was before the clear; a Playing tick that reads an empty raw title while
\* previous_track is empty pushes nothing.
C17_RepushAfterClear ==
    /\ (PlayingTick /\ tick.was_cleared
          /\ tick.raw # <<>> /\ HasArtistSegment(tick.raw))
           => tick.pushes = 1
    /\ (PlayingTick /\ tick.raw = <<>> /\ previous_track = <<>>)
           => tick.pushes = 0

\* C18: after every completed tick that read Paused or Stopped the display
\* shows nothing.
C18_HiddenWhenNotPlaying ==
    (pc = "poll" /\ tick.status \in {"Paused", "Stopped"})
        => ~presence.shown

\* a Stopped tick that found the flag off and cleared the display
C18_Witness ==
    /\ pc = "poll" /\ tick.status = "Stopped" /\ ~tick.was_cleared
    /\ tick.clears = 1 /\ ~presence.shown

\* C19: between completed ticks, a non-empty previous_track means that
\* cleared is false and that the display shows the details and the state
\* parsed from previous_track; cleared = TRUE means previous_track is empty.
C19_SessionConsistent ==
    pc = "poll" =>
        /\ previous_track # <<>> =>
              /\ ~cleared
              /\ presence.shown
              /\ presence.details = ParseTrackName(TrackInfo(previous_track))
              /\ \E track_pos \in 0 .. MaxPos :
                    presence.state =
                        ByLabel \o ParseArtist(TrackInfo(previous_track),
                                               track_pos)
        /\ cleared => previous_track = <<>>

\* a Playing tick that read the title already shown
C19_Witness ==
    /\ pc = "poll" /\ previous_track # <<>>
    /\ PlayingTick /\ ~tick.changed /\ tick.raw = previous_track
    /\ presence.shown /\ ~cleared

\* the tables of the local strategy are loaded: custom_assets is configured
\* and direct urls are off, by configuration or for want of an API key
TablesWanted ==
    /\ settings.custom_assets
    /\ ~settings.use_direct_urls
          \/ settings.lastfm_api_key \in {"", "YOUR_LASTFM_API_KEY_HERE"}

\* C20 as stated: the local strategy runs only where both tables were
\* defined at startup; whenever album_covers.json is absent, custom_assets
\* is off and every track change uses the static default.
C20_TablesLoadedBeforeUse ==
    /\ tick.path \in LocalPaths => (exceptions_loaded /\ assets_loaded)
    /\ ~files.covers =>
          /\ ~custom_assets
          /\ tick.resolves = 1 => tick.path = "static"
          /\ tick.pushes = 1 =>
                /\ presence.large_image = "logo"
                /\ presence.large_text = VersionBanner

\* C20 amended: the local strategy runs only where both tables were defined
\* at startup; when the tables are loaded and album_covers.json is absent,
\* custom_assets is turned off and every track change uses the static
\* default.  With direct urls in use the files are not looked for and
\* custom_assets keeps its configured value.
C20_TablesLoadedWhenWanted ==
    /\ tick.path \in LocalPaths =>
          (TablesWanted /\ files.covers /\ exceptions_loaded /\ assets_loaded)
    /\ (TablesWanted /\ ~files.covers) =>
          /\ ~custom_assets
          /\ tick.resolves = 1 => tick.path = "static"
          /\ tick.pushes = 1 =>
                /\ presence.large_image = "logo"
                /\ presence.large_text = VersionBanner
    /\ ~TablesWanted =>
          /\ custom_assets = settings.custom_assets
          /\ tick.path \notin LocalPaths

\* custom_assets was configured, album_covers.json was not there: a track
\* change was pushed with the static default
C20_Witness ==
    /\ TablesWanted /\ ~files.covers /\ ~custom_assets
    /\ tick.pushes = 1 /\ tick.path = "static"
    /\ presence.large_image = "logo"

====
